---- MODULE Spec2Model ----
(***************************************************************************)
(* A model of noseyparker's datastore (crates/noseyparker/src/datastore.rs)*)
(* and of its provenance set (crates/noseyparker/src/target_set.rs).       *)
(*                                                                         *)
(* The collections of the document store are sequences of documents in     *)
(* cursor order; a document is a record whose DOMAIN is the set of fields  *)
(* it carries, so that a lookup of a field the writer never wrote is an    *)
(* absent field, exactly as in the code.                                   *)
(***************************************************************************)
EXTENDS Integers, Sequences, FiniteSets, TLC

VARIABLES
    matches,      \* the "matches" collection
    findings,     \* the "findings" collection
    call,         \* the datastore operation that ran last
    ret,          \* what that operation returned
    analyze_runs, \* how many times analyze ran in a row just now (0, 1, 2 = twice or more)
    annotations,  \* the "annotations" collection
    phase,        \* position of import_annotations: idle, findings, matches
    batch,        \* the entries of the Annotations argument consumed so far
    finding_comment_stats,  \* import_annotations' counters for finding annotations
    match_comment_stats,    \* import_annotations' counters for match annotations
    ts_input,     \* the sequence handed to TargetSet::try_from_iter
    ts_result,    \* what try_from_iter returned
    blob_targets, \* the "blob_targets" collection
    fd_args,      \* the arguments of the last get_finding_data call
    converted,    \* the Match values built so far, each with its finding_id()
    pending,      \* position of a running analyze: the findings it has still to insert
    clipped       \* the last snippet windows Match::convert cut, with their inputs

aggVars == <<matches, findings, call, ret, analyze_runs>>
annVars == <<annotations, phase, batch, finding_comment_stats, match_comment_stats>>
tsVars  == <<ts_input, ts_result>>
dataVars == <<blob_targets, fd_args>>
idVars  == <<converted>>
stepVars == <<pending, clipped>>
vars    == <<matches, findings, call, ret, analyze_runs, annotations, phase, batch,
             finding_comment_stats, match_comment_stats, ts_input, ts_result,
             blob_targets, fd_args, converted, pending, clipped>>

(***************************************************************************)
(* Bounds of the model.                                                    *)
(***************************************************************************)
MaxMatches == 3
MaxBatch == 2
MaxTargets == 2
MaxConverted == 2
MaxStored == 2
MaxScanned == 1
MaxBlobLen == 4
\* the width of usize, scaled down
UsizeBits == 4

(***************************************************************************)
(* Documents.                                                              *)
(***************************************************************************)
\* The outcome of a typed getter on a field that is absent (or not a string).
NoField == "<absent>"

\* doc.get_str(field) / doc.get_i64(field) / doc.get_array(field): the value, or
\* the getter's error when the document does not carry the field.
HasField(doc, field) == field \in DOMAIN doc

GetStrOr(doc, field, default) == IF HasField(doc, field) THEN doc[field] ELSE default

GetI64Or(doc, field, default) == IF HasField(doc, field) THEN doc[field] ELSE default

GetArrayOr(doc, field, default) == IF HasField(doc, field) THEN doc[field] ELSE default

Ok == [tag |-> "Ok"]

Err(msg) == [tag |-> "Err", msg |-> msg]

\* Every ordering of a finite set: the iteration order of a std HashMap is
\* unspecified and differs from one map to the next.
RECURSIVE Orders(_)
Orders(S) ==
    IF S = {} THEN {<<>>}
    ELSE UNION {{<<x>> \o p : p \in Orders(S \ {x})} : x \in S}

(***************************************************************************)
(* Identity scheme (match_type.rs).  Sha1 is modelled as injective: a      *)
(* digest is the text that was fed to the hash.                            *)
(***************************************************************************)
RECURSIVE JoinGroups(_)
JoinGroups(groups) ==
    IF groups = <<>> THEN ""
    ELSE IF Len(groups) = 1 THEN "\"" \o Head(groups) \o "\""
    ELSE "\"" \o Head(groups) \o "\"," \o JoinGroups(Tail(groups))

\* serde_json::to_writer(&self.groups): a JSON array, in the order of the groups
GroupsJson(groups) == "[" \o JoinGroups(groups) \o "]"

\* a finding id that hashes the groups as an unordered collection
FindingIdUnordered(rule_structural_id, groups) ==
    <<rule_structural_id, {groups[i] : i \in 1..Len(groups)}>>

\* Match::finding_id
FindingId(rule_structural_id, groups) ==
    "sha1(" \o rule_structural_id \o "|" \o GroupsJson(groups) \o ")"

\* Match::compute_structural_id
StructuralId(rule_structural_id, blob_id, start, end) ==
    "sha1(" \o rule_structural_id \o "|" \o blob_id \o "|" \o ToString(start)
            \o "|" \o ToString(end) \o ")"

\* The rules of the scan, the blobs, the spans of a match in a blob and the
\* capture groups a rule may yield: what Match::convert is given.
Rules ==
    {[structural_id |-> "r1", name |-> "Rule One", id |-> "np.r1"],
     [structural_id |-> "r1", name |-> "Rule Uno", id |-> "np.r1.es"],
     [structural_id |-> "r2", name |-> "Rule Two", id |-> "np.r2"]}

BlobIds == {"b1", "b2"}

OffsetSpans == {[start |-> 0, end |-> 9], [start |-> 4, end |-> 9]}

Captures == {<<"k1", "k2">>, <<"k2", "k1">>, <<"k1">>}

\* Match::convert: the Match of a rule's match in a blob
MatchConvert(rule, blob_id, offset_span, captures) ==
    [blob_id |-> blob_id,
     rule_structural_id |-> rule.structural_id,
     rule_name |-> rule.name,
     rule_text_id |-> rule.id,
     snippet |-> [matching |-> Head(captures)],
     location |-> [offset_span |-> offset_span],
     groups |-> captures,
     structural_id |-> StructuralId(rule.structural_id, blob_id,
                                    offset_span.start, offset_span.end)]

\* The scanner converts one more match.
Convert ==
    /\ Len(converted) < MaxConverted
    /\ \E rule \in Rules, blob_id \in BlobIds, span \in OffsetSpans, captures \in Captures :
          converted' = Append(converted,
              [m |-> MatchConvert(rule, blob_id, span, captures), finding_id |-> NoField])
    /\ UNCHANGED <<aggVars, annVars, tsVars, dataVars, stepVars>>

\* m.finding_id() is called on a converted match.
CallFindingId ==
    /\ \E i \in 1..Len(converted) :
          /\ converted[i].finding_id = NoField
          /\ converted' = [converted EXCEPT ![i].finding_id =
                              FindingId(converted[i].m.rule_structural_id,
                                        converted[i].m.groups)]
    /\ UNCHANGED <<aggVars, annVars, tsVars, dataVars, stepVars>>

(***************************************************************************)
(* The matches collection is written by the scanner.  A match document     *)
(* carries the serialized match under "match" and the columns that         *)
(* get_finding_data reads at the top level.                                *)
(***************************************************************************)
RuleNameOf(rule_structural_id) == IF rule_structural_id = "r1" THEN "Rule One" ELSE "Rule Two"

MatchDoc(rule_structural_id, groups, blob_id) ==
    [match |-> [rule_name |-> RuleNameOf(rule_structural_id),
                rule_text_id |-> "np." \o rule_structural_id,
                rule_structural_id |-> rule_structural_id],
     rule_structural_id |-> rule_structural_id,
     groups |-> groups,
     blob_id |-> blob_id]

\* a writer that also stores the finding id inside the serialized match
WithFindingId(doc) ==
    [doc EXCEPT !.match = doc.match @@
        ("finding_id" :> FindingId(doc.rule_structural_id, doc.groups))]

\* a match that carries a triage status
WithStatus(doc, status) == doc @@ ("status" :> status)

DocA == MatchDoc("r1", <<"secret123">>, "b1")
DocB == MatchDoc("r1", <<"secret123">>, "b2")
DocC == MatchDoc("r1", <<"hunter2">>, "b1")
DocD == MatchDoc("r2", <<"secret123">>, "b1")
\* a match whose writer stored its finding id
DocE == WithFindingId(MatchDoc("r1", <<"token">>, "b1"))
\* a record without the "match" sub-document
DocNoMatch == [rule_structural_id |-> "r1", groups |-> <<"secret123">>, blob_id |-> "b2"]

MatchDocs ==
    {DocA, DocB, DocC, DocD,
     DocE,
     WithStatus(DocB, "accept"),
     DocNoMatch}

(***************************************************************************)
(* Datastore::analyze                                                      *)
(***************************************************************************)
\* a delete_many that spares the first document
DeleteManyKeepsFirst(collection) == IF collection = <<>> THEN <<>> ELSE <<Head(collection)>>

\* a delete_many that removes nothing
DeleteManyKeepsAll(collection) == collection

\* findings_collection.delete_many(doc! {})
DeleteMany(collection) == <<>>

\* the key under which analyze files a match document
AnalyzeKey(doc) ==
    <<GetStrOr(doc.match, "rule_name", "Unknown Rule"),
      GetStrOr(doc.match, "rule_structural_id", ""),
      GetStrOr(doc.match, "finding_id", "")>>

\* findings_map after the loop over the cursor: the keys, and per key the
\* documents pushed, in cursor order
FindingsMapKeys(ms) == {AnalyzeKey(ms[i]) : i \in 1..Len(ms)}

\* a map that keeps only the first document pushed under a key
FindingsMapAtFirst(ms, key) == <<SelectSeq(ms, LAMBDA d : AnalyzeKey(d) = key)[1]>>

FindingsMapAt(ms, key) == SelectSeq(ms, LAMBDA d : AnalyzeKey(d) = key)

\* a finding document whose count is always one
FindingDocCountsOne(key, ms) ==
    [rule_name |-> key[1],
     rule_structural_id |-> key[2],
     finding_id |-> key[3],
     count |-> 1,
     matches |-> ms,
     accept_count |-> 0,
     reject_count |-> 0,
     mixed_count |-> 0,
     unlabeled_count |-> 1]

\* the finding document analyze builds for one entry of findings_map
FindingDoc(key, ms) ==
    [rule_name |-> key[1],
     rule_structural_id |-> key[2],
     finding_id |-> key[3],
     count |-> Len(ms),
     matches |-> ms,
     accept_count |-> 0,
     reject_count |-> 0,
     mixed_count |-> 0,
     unlabeled_count |-> Len(ms)]

\* doc.get_document("match") fails on some record of the cursor
MatchFieldMissing(ms) == \E i \in 1..Len(ms) : ~HasField(ms[i], "match")

Analyze ==
    /\ call' = "analyze"
    /\ analyze_runs' = IF analyze_runs = 0 THEN 1 ELSE 2
    /\ IF MatchFieldMissing(matches)
       THEN /\ findings' = DeleteMany(findings)
            /\ ret' = Err("'match' field not present")
       ELSE \E order \in Orders(FindingsMapKeys(matches)) :
            /\ findings' = DeleteMany(findings) \o
                   [i \in 1..Len(order) |-> FindingDoc(order[i], FindingsMapAt(matches, order[i]))]
            /\ ret' = Ok
    /\ UNCHANGED matches
    /\ UNCHANGED <<annVars, tsVars, dataVars, idVars, stepVars>>

\* The scanner records one more match.
InsertMatch ==
    /\ Len(matches) < MaxMatches
    /\ \E doc \in MatchDocs : matches' = Append(matches, doc)
    /\ call' = "insert_match"
    /\ ret' = Ok
    /\ analyze_runs' = 0
    /\ UNCHANGED findings
    /\ UNCHANGED <<annVars, tsVars, dataVars, idVars, stepVars>>

(***************************************************************************)
(* Datastore::get_num_matches, get_num_findings                            *)
(***************************************************************************)
GetNumMatches ==
    /\ call' = "get_num_matches"
    /\ ret' = Len(matches)
    /\ analyze_runs' = 0
    /\ UNCHANGED <<matches, findings, annVars, tsVars, dataVars, idVars, stepVars>>

GetNumFindings ==
    /\ call' = "get_num_findings"
    /\ ret' = Len(findings)
    /\ analyze_runs' = 0
    /\ UNCHANGED <<matches, findings, annVars, tsVars, dataVars, idVars, stepVars>>

(***************************************************************************)
(* Datastore::get_summary                                                  *)
(***************************************************************************)
\* .or_insert(FindingSummaryEntry { .. })
SummaryNew(doc) ==
    [rule_name |-> doc.rule_name,
     distinct_count |-> 1,
     total_count |-> doc.count,
     accept_count |-> doc.accept_count,
     reject_count |-> doc.reject_count,
     mixed_count |-> doc.mixed_count,
     unlabeled_count |-> doc.unlabeled_count]

\* an and_modify that counts one match per finding instead of the finding's count
SummaryAndModifyCountsOne(e, doc) ==
    [e EXCEPT !.distinct_count = @ + 1,
              !.total_count = @ + 1,
              !.accept_count = @ + doc.accept_count,
              !.reject_count = @ + doc.reject_count,
              !.mixed_count = @ + doc.mixed_count,
              !.unlabeled_count = @ + doc.unlabeled_count]

\* .and_modify(|e| ..)
SummaryAndModify(e, doc) ==
    [e EXCEPT !.distinct_count = @ + 1,
              !.total_count = @ + doc.count,
              !.accept_count = @ + doc.accept_count,
              !.reject_count = @ + doc.reject_count,
              !.mixed_count = @ + doc.mixed_count,
              !.unlabeled_count = @ + doc.unlabeled_count]

\* summary_map after the loop over the first n documents of the cursor
RECURSIVE SummaryMap(_, _)
SummaryMap(fs, n) ==
    IF n = 0 THEN <<>>
    ELSE LET map == SummaryMap(fs, n - 1)
             doc == fs[n]
         IN IF doc.rule_name \in DOMAIN map
            THEN [map EXCEPT ![doc.rule_name] = SummaryAndModify(@, doc)]
            ELSE map @@ (doc.rule_name :> SummaryNew(doc))

GetSummary ==
    /\ call' = "get_summary"
    /\ LET map == SummaryMap(findings, Len(findings))
       IN \E order \in Orders(DOMAIN map) :
              ret' = [i \in 1..Len(order) |-> map[order[i]]]
    /\ analyze_runs' = 0
    /\ UNCHANGED <<matches, findings, annVars, tsVars, dataVars, idVars, stepVars>>

(***************************************************************************)
(* Datastore::get_finding_metadata                                         *)
(***************************************************************************)
FindingMetadata(doc) ==
    [finding_id |-> doc.finding_id,
     groups |-> GetArrayOr(doc, "groups", <<>>),
     rule_structural_id |-> GetStrOr(doc, "rule_structural_id", ""),
     rule_text_id |-> GetStrOr(doc, "rule_text_id", ""),
     rule_name |-> GetStrOr(doc, "rule_name", ""),
     num_matches |-> GetI64Or(doc, "num_matches", 0),
     comment |-> GetStrOr(doc, "comment", NoField),
     statuses |-> GetArrayOr(doc, "statuses", <<>>),
     mean_score |-> NoField]

\* doc.get_str("finding_id")? is the one getter of the loop that propagates
FindingIdMissing(fs) == \E i \in 1..Len(fs) : ~HasField(fs[i], "finding_id")

GetFindingMetadata ==
    /\ call' = "get_finding_metadata"
    /\ ret' = IF FindingIdMissing(findings)
              THEN Err("finding_id")
              ELSE [tag |-> "Ok",
                    entries |-> [i \in 1..Len(findings) |-> FindingMetadata(findings[i])]]
    /\ analyze_runs' = 0
    /\ UNCHANGED <<matches, findings, annVars, tsVars, dataVars, idVars, stepVars>>

\* Datastore.db is a public field: the findings collection may hold documents
\* that another writer left there.  A finding as analyze writes it, one that
\* also carries groups, statuses and a comment, one without rule_name and one
\* without finding_id.
AnalyzedFinding == FindingDoc(AnalyzeKey(DocA), <<DocA>>)

StoredFindings ==
    {AnalyzedFinding,
     AnalyzedFinding @@ ("groups" :> <<"secret123">>) @@ ("statuses" :> <<"accept">>)
                     @@ ("comment" :> "a"),
     [finding_id |-> FindingId("r2", <<"secret123">>), rule_structural_id |-> "r2",
      count |-> 1, matches |-> <<DocD>>],
     [rule_name |-> "Rule One", rule_structural_id |-> "r1", count |-> 1,
      matches |-> <<DocC>>]}

\* Another writer stores one more finding.
StoreFinding ==
    /\ Len(findings) < MaxMatches
    /\ \E doc \in StoredFindings : findings' = Append(findings, doc)
    /\ call' = "store_finding"
    /\ ret' = Ok
    /\ analyze_runs' = 0
    /\ UNCHANGED matches
    /\ UNCHANGED <<annVars, tsVars, dataVars, idVars, stepVars>>

(***************************************************************************)
(* Annotations (datastore.rs, import_annotations).                         *)
(*                                                                         *)
(* import_annotations takes &mut self, so no other operation of the        *)
(* datastore runs while it does.  Its two loops are modelled one iteration *)
(* per step; the entries of the Annotations argument are drawn as the      *)
(* loops reach them and recorded in batch.                                 *)
(***************************************************************************)
\* Option::None of an annotation's comment or status
None == NoField

\* Bson::Null, which is what an Option::None becomes in doc! { .. }
BsonNull == "<null>"

FindingAnnotation(rule_structural_id, groups, comment) ==
    [finding_id |-> FindingId(rule_structural_id, groups),
     rule_name |-> RuleNameOf(rule_structural_id),
     rule_text_id |-> "np." \o rule_structural_id,
     rule_structural_id |-> rule_structural_id,
     groups |-> groups,
     comment |-> comment]

MatchAnnotation(rule_structural_id, groups, blob_id, status, comment) ==
    [finding_id |-> FindingId(rule_structural_id, groups),
     rule_name |-> RuleNameOf(rule_structural_id),
     rule_text_id |-> "np." \o rule_structural_id,
     rule_structural_id |-> rule_structural_id,
     match_id |-> StructuralId(rule_structural_id, blob_id, 0, 9),
     blob_id |-> blob_id,
     start_byte |-> 0,
     end_byte |-> 9,
     groups |-> groups,
     status |-> status,
     comment |-> comment]

\* The annotations an import may carry: comments on two findings of rule r1,
\* and on one match of each of them either a status or a comment.
FindingAnnotations ==
    {FindingAnnotation("r1", g, c) : g \in {<<"secret123">>, <<"hunter2">>}, c \in {"a", "b"}}

MatchAnnotations ==
    {MatchAnnotation("r1", <<"secret123">>, "b1", "accept", None),
     MatchAnnotation("r1", <<"secret123">>, "b1", None, "a"),
     MatchAnnotation("r1", <<"hunter2">>, "b2", "accept", None),
     MatchAnnotation("r1", <<"hunter2">>, "b2", None, "a")}

\* collection.find_one(doc! { field: value }): the position of the first
\* document of the cursor that carries the field with that value, 0 for None
RECURSIVE FindOneFrom(_, _, _, _)
FindOneFrom(collection, field, value, i) ==
    IF i > Len(collection) THEN 0
    ELSE IF HasField(collection[i], field) /\ collection[i][field] = value THEN i
    ELSE FindOneFrom(collection, field, value, i + 1)

FindOne(collection, field, value) == FindOneFrom(collection, field, value, 1)

\* the document inserted for a finding annotation
FindingAnnotationDoc(fa) ==
    [finding_id |-> fa.finding_id,
     rule_name |-> fa.rule_name,
     rule_text_id |-> fa.rule_text_id,
     rule_structural_id |-> fa.rule_structural_id,
     groups |-> fa.groups,
     comment |-> fa.comment]

\* ma.comment.as_deref().unwrap_or("")
CommentOrEmpty(comment) == IF comment = None THEN "" ELSE comment

\* the document inserted for a match annotation
MatchAnnotationDoc(ma) ==
    [finding_id |-> ma.finding_id,
     rule_name |-> ma.rule_name,
     rule_text_id |-> ma.rule_text_id,
     rule_structural_id |-> ma.rule_structural_id,
     match_id |-> ma.match_id,
     blob_id |-> ma.blob_id,
     start_byte |-> ma.start_byte,
     end_byte |-> ma.end_byte,
     groups |-> ma.groups,
     status |-> IF ma.status = None THEN BsonNull ELSE ma.status,
     comment |-> CommentOrEmpty(ma.comment)]

ZeroStats == [n_imported |-> 0, n_conflicting |-> 0, n_existing |-> 0, n_missing |-> 0]

\* a reconciliation that counts a conflict and overwrites the stored comment
ReconcileOverwrites(collection, stats, field, value, comment, newdoc) ==
    LET i == FindOne(collection, field, value)
    IN IF i # 0
       THEN IF collection[i].comment = comment
            THEN [collection |-> collection,
                  stats |-> [stats EXCEPT !.n_existing = @ + 1]]
            ELSE [collection |-> [collection EXCEPT ![i].comment = comment],
                  stats |-> [stats EXCEPT !.n_conflicting = @ + 1]]
       ELSE [collection |-> Append(collection, newdoc),
             stats |-> [stats EXCEPT !.n_imported = @ + 1]]

\* a reconciliation that counts a duplicate and writes it again
ReconcileRewrites(collection, stats, field, value, comment, newdoc) ==
    LET i == FindOne(collection, field, value)
    IN IF i # 0
       THEN IF collection[i].comment = comment
            THEN [collection |-> Append(collection, newdoc),
                  stats |-> [stats EXCEPT !.n_existing = @ + 1]]
            ELSE [collection |-> collection,
                  stats |-> [stats EXCEPT !.n_conflicting = @ + 1]]
       ELSE [collection |-> Append(collection, newdoc),
             stats |-> [stats EXCEPT !.n_imported = @ + 1]]

\* a reconciliation that counts a new entry as imported without inserting it
ReconcileDropsNew(collection, stats, field, value, comment, newdoc) ==
    LET i == FindOne(collection, field, value)
    IN IF i # 0
       THEN IF collection[i].comment = comment
            THEN [collection |-> collection,
                  stats |-> [stats EXCEPT !.n_existing = @ + 1]]
            ELSE [collection |-> collection,
                  stats |-> [stats EXCEPT !.n_conflicting = @ + 1]]
       ELSE [collection |-> collection,
             stats |-> [stats EXCEPT !.n_imported = @ + 1]]

\* an iteration that gives up on every entry once a conflict has been counted
ReconcileStopsAfterConflict(collection, stats, field, value, comment, newdoc) ==
    LET i == FindOne(collection, field, value)
    IN IF stats.n_conflicting > 0
       THEN [collection |-> collection, stats |-> stats]
       ELSE IF i # 0
       THEN IF collection[i].comment = comment
            THEN [collection |-> collection,
                  stats |-> [stats EXCEPT !.n_existing = @ + 1]]
            ELSE [collection |-> collection,
                  stats |-> [stats EXCEPT !.n_conflicting = @ + 1]]
       ELSE [collection |-> Append(collection, newdoc),
             stats |-> [stats EXCEPT !.n_imported = @ + 1]]

\* One iteration of a loop of import_annotations: look the key up, then count
\* the entry as existing or conflicting, or insert its document and count it as
\* imported.
Reconcile(collection, stats, field, value, comment, newdoc) ==
    LET i == FindOne(collection, field, value)
    IN IF i # 0
       THEN IF collection[i].comment = comment
            THEN [collection |-> collection,
                  stats |-> [stats EXCEPT !.n_existing = @ + 1]]
            ELSE [collection |-> collection,
                  stats |-> [stats EXCEPT !.n_conflicting = @ + 1]]
       ELSE [collection |-> Append(collection, newdoc),
             stats |-> [stats EXCEPT !.n_imported = @ + 1]]

\* the body of `for fa in annotations.finding_annotations.iter()`
ImportFindingAnnotation(collection, stats, fa) ==
    Reconcile(collection, stats, "finding_id", fa.finding_id, fa.comment,
              FindingAnnotationDoc(fa))

\* the body of `for ma in annotations.match_annotations.iter()`
ImportMatchAnnotation(collection, stats, ma) ==
    Reconcile(collection, stats, "match_id", ma.match_id, CommentOrEmpty(ma.comment),
              MatchAnnotationDoc(ma))

\* import_annotations on a whole Annotations value: the loop over its finding
\* annotations, then the loop over its match annotations
RECURSIVE ImportFindingAnnotations(_, _, _)
ImportFindingAnnotations(collection, stats, fas) ==
    IF fas = <<>> THEN [collection |-> collection, stats |-> stats]
    ELSE LET r == ImportFindingAnnotation(collection, stats, Head(fas))
         IN ImportFindingAnnotations(r.collection, r.stats, Tail(fas))

RECURSIVE ImportMatchAnnotations(_, _, _)
ImportMatchAnnotations(collection, stats, mas) ==
    IF mas = <<>> THEN [collection |-> collection, stats |-> stats]
    ELSE LET r == ImportMatchAnnotation(collection, stats, Head(mas))
         IN ImportMatchAnnotations(r.collection, r.stats, Tail(mas))

ImportAnnotations(collection, anns) ==
    LET f == ImportFindingAnnotations(collection, ZeroStats, anns.finding_annotations)
        m == ImportMatchAnnotations(f.collection, ZeroStats, anns.match_annotations)
    IN [collection |-> m.collection,
        finding_comment_stats |-> f.stats,
        match_comment_stats |-> m.stats]

BatchSize == Len(batch.finding_annotations) + Len(batch.match_annotations)

\* import_annotations is entered
ImportBegin ==
    /\ phase = "idle"
    /\ phase' = "findings"
    /\ batch' = [finding_annotations |-> <<>>, match_annotations |-> <<>>]
    /\ finding_comment_stats' = ZeroStats
    /\ match_comment_stats' = ZeroStats
    /\ UNCHANGED annotations
    /\ UNCHANGED <<aggVars, tsVars, dataVars, idVars, stepVars>>

\* one iteration of the loop over the finding annotations
ImportFindingStep ==
    /\ phase = "findings"
    /\ BatchSize < MaxBatch
    /\ \E fa \in FindingAnnotations :
          LET r == ImportFindingAnnotation(annotations, finding_comment_stats, fa)
          IN /\ annotations' = r.collection
             /\ finding_comment_stats' = r.stats
             /\ batch' = [batch EXCEPT !.finding_annotations = Append(@, fa)]
    /\ UNCHANGED <<phase, match_comment_stats>>
    /\ UNCHANGED <<aggVars, tsVars, dataVars, idVars, stepVars>>

\* one iteration of the loop over the match annotations, which starts when the
\* loop over the finding annotations has ended
ImportMatchStep ==
    /\ phase \in {"findings", "matches"}
    /\ BatchSize < MaxBatch
    /\ \E ma \in MatchAnnotations :
          LET r == ImportMatchAnnotation(annotations, match_comment_stats, ma)
          IN /\ annotations' = r.collection
             /\ match_comment_stats' = r.stats
             /\ batch' = [batch EXCEPT !.match_annotations = Append(@, ma)]
    /\ phase' = "matches"
    /\ UNCHANGED finding_comment_stats
    /\ UNCHANGED <<aggVars, tsVars, dataVars, idVars, stepVars>>

\* both loops have ended: the counters are logged and Ok(()) is returned
ImportEnd ==
    /\ phase \in {"findings", "matches"}
    /\ phase' = "idle"
    /\ UNCHANGED <<annotations, batch, finding_comment_stats, match_comment_stats>>
    /\ UNCHANGED <<aggVars, tsVars, dataVars, idVars, stepVars>>

\* Annotations arguments of at most one entry
SmallBatches ==
    {[finding_annotations |-> <<>>, match_annotations |-> <<>>]}
    \cup {[finding_annotations |-> <<fa>>, match_annotations |-> <<>>] :
             fa \in FindingAnnotations}
    \cup {[finding_annotations |-> <<>>, match_annotations |-> <<ma>>] :
             ma \in MatchAnnotations}

\* import_annotations as one step, from its first line to its Ok(()); the
\* store is followed up to its first import into the annotations collection
ImportAnnotationsCall ==
    /\ phase = "idle"
    /\ annotations = <<>>
    /\ \E anns \in SmallBatches :
          LET r == ImportAnnotations(annotations, anns)
          IN /\ annotations' = r.collection
             /\ finding_comment_stats' = r.finding_comment_stats
             /\ match_comment_stats' = r.match_comment_stats
             /\ batch' = anns
    /\ call' = "import_annotations"
    /\ ret' = Ok
    /\ analyze_runs' = 0
    /\ UNCHANGED <<matches, findings, phase>>
    /\ UNCHANGED <<tsVars, dataVars, idVars, stepVars>>

(***************************************************************************)
(* Provenance (target.rs, target_set.rs).                                  *)
(***************************************************************************)
\* GitRepoTarget.first_commit = None
NoCommit == "<no commit>"

\* Target::from_file
FileTarget(path) == [kind |-> "file", path |-> path]

\* Target::from_git_repo and Target::from_git_repo_with_first_commit
GitRepoTarget(repo_path, first_commit) ==
    [kind |-> "git_repo", repo_path |-> repo_path, first_commit |-> first_commit]

\* Target::from_extended
ExtendedTarget(value) == [kind |-> "extended", value |-> value]

Targets ==
    {FileTarget(p) : p \in {"/a", "/b"}}
    \cup {GitRepoTarget(p, c) : p \in {"/repo1", "/repo2"}, c \in {NoCommit, "c1", "c2"}}
    \cup {ExtendedTarget("{\"path\":\"/a\"}")}

\* a first loop that records every GitRepo path, with or without a commit
GitReposWithAny(all) ==
    {all[i].repo_path : i \in {j \in 1..Len(all) : all[j].kind = "git_repo"}}

\* git_repos_with_detailed after the first loop of TargetSet::new
GitReposWithDetailed(all) ==
    {all[i].repo_path : i \in {j \in 1..Len(all) :
                                 all[j].kind = "git_repo" /\ all[j].first_commit # NoCommit}}

\* a filter that drops every GitRepo entry whose path is in the detailed set
KeepsUndetailedPaths(p, detailed) ==
    IF p.kind = "git_repo" THEN p.repo_path \notin detailed ELSE TRUE

\* a filter that drops every GitRepo entry without a commit
KeepsOnlyDetailed(p, detailed) ==
    IF p.kind = "git_repo" THEN p.first_commit # NoCommit ELSE TRUE

\* the closure given to filter in TargetSet::new
Keeps(p, detailed) ==
    IF p.kind = "git_repo"
    THEN p.first_commit # NoCommit \/ p.repo_path \notin detailed
    ELSE TRUE

\* TargetSet::new; it.next().unwrap() panics when the filter keeps nothing
TargetSetNew(target, more_target) ==
    LET all == <<target>> \o more_target
        detailed == GitReposWithDetailed(all)
        kept == SelectSeq(all, LAMBDA p : Keeps(p, detailed))
    IN IF kept = <<>>
       THEN [tag |-> "panic"]
       ELSE [tag |-> "Some", target |-> Head(kept), more_target |-> Tail(kept)]

\* TargetSet::try_from_iter
TryFromIter(it) ==
    IF it = <<>> THEN [tag |-> "None"]
    ELSE TargetSetNew(Head(it), Tail(it))

\* TargetSet::len
TargetSetLen(ts) == 1 + Len(ts.more_target)

\* TargetSet::first
TargetSetFirst(ts) == ts.target

\* TargetSet::iter
TargetSetIter(ts) == <<ts.target>> \o ts.more_target

\* A caller collects one more target for the sequence it will hand over.
PushTarget ==
    /\ ts_result.tag = "pending"
    /\ Len(ts_input) < MaxTargets
    /\ \E t \in Targets : ts_input' = Append(ts_input, t)
    /\ UNCHANGED ts_result
    /\ UNCHANGED <<aggVars, annVars, dataVars, idVars, stepVars>>

\* The caller calls TargetSet::try_from_iter on the sequence.
CallTryFromIter ==
    /\ ts_result.tag = "pending"
    /\ ts_result' = TryFromIter(ts_input)
    /\ UNCHANGED ts_input
    /\ UNCHANGED <<aggVars, annVars, dataVars, idVars, stepVars>>

(***************************************************************************)
(* Datastore::get_finding_data and get_target_set.                         *)
(*                                                                         *)
(* A match as the scanner stores it carries, next to the serialized match, *)
(* the columns that get_finding_data reads.  Blob ids are the hex digests  *)
(* the scanner wrote.                                                      *)
(***************************************************************************)
ScannedMatchDoc(rule_structural_id, groups, blob_id) ==
    MatchDoc(rule_structural_id, groups, blob_id) @@
    [start_byte |-> 0, end_byte |-> 9,
     start_line |-> 1, start_column |-> 0, end_line |-> 1, end_column |-> 9,
     snippet_before |-> "", snippet_matching |-> Head(groups), snippet_after |-> "",
     structural_id |-> StructuralId(rule_structural_id, blob_id, 0, 9),
     match_id |-> StructuralId(rule_structural_id, blob_id, 0, 9),
     num_bytes |-> 12]

ScanA == ScannedMatchDoc("r1", <<"secret123">>, "b1")
ScanB == ScannedMatchDoc("r1", <<"secret123">>, "b2")
ScanC == ScannedMatchDoc("r1", <<"hunter2">>, "b1")
ScanD == ScannedMatchDoc("r2", <<"secret123">>, "b1")

\* the stored matches: well-formed ones, one with a status, one whose status
\* is no Status
ScannedMatchDocs ==
    {ScanA, ScanB, ScanC, ScanD,
     WithStatus(ScanB, "accept"),
     WithStatus(ScanA, "maybe")}

\* the blob_targets collection: the target column holds "<kind>:<path>", here
\* as the parts that split(':') gives
BlobTargetDocs ==
    {[blob_id |-> "b1", target |-> <<"file", "/a">>],
     [blob_id |-> "b2", target |-> <<"git_repo", "/repo1">>],
     [blob_id |-> "b2", target |-> <<"extended", "x">>]}

\* Status::from_str
StatusFromStr(str) ==
    IF str \in {"accept", "reject"} THEN [tag |-> "Ok", value |-> str] ELSE [tag |-> "Err"]

\* Target::from_str
TargetFromStr(parts) ==
    IF parts[1] = "file"
    THEN IF Len(parts) >= 2 THEN [tag |-> "Ok", value |-> FileTarget(parts[2])]
                            ELSE Err("Missing path")
    ELSE IF parts[1] = "git_repo"
    THEN IF Len(parts) >= 2 THEN [tag |-> "Ok", value |-> GitRepoTarget(parts[2], NoCommit)]
                            ELSE Err("Missing repo path")
    ELSE Err("Invalid target")

Panic(msg) == [tag |-> "panic", msg |-> msg]

RECURSIVE ParseTargets(_)
\* the loop of get_target_set over the cursor: Ok(targets), the error of a
\* missing target column, or the panic of expect("Invalid Target")
ParseTargets(docs) ==
    IF docs = <<>> THEN [tag |-> "Ok", value |-> <<>>]
    ELSE IF ~HasField(Head(docs), "target") THEN Err("target")
    ELSE IF TargetFromStr(Head(docs).target).tag # "Ok" THEN Panic("Invalid Target")
    ELSE LET rest == ParseTargets(Tail(docs))
         IN IF rest.tag # "Ok" THEN rest
            ELSE [tag |-> "Ok",
                  value |-> <<TargetFromStr(Head(docs).target).value>> \o rest.value]

\* a get_target_set that answers a blob without provenance with a default set
GetTargetSetDefaulted(bts, blob_id) ==
    [tag |-> "Ok",
     value |-> [tag |-> "Some", target |-> FileTarget(""), more_target |-> <<>>]]

\* Datastore::get_target_set
GetTargetSet(bts, blob_id) ==
    LET cursor == SelectSeq(bts, LAMBDA d : HasField(d, "blob_id") /\ d.blob_id = blob_id)
        targets == ParseTargets(cursor)
    IN IF targets.tag # "Ok" THEN targets
       ELSE LET ts == TryFromIter(targets.value)
            IN IF ts.tag = "None" THEN Err("should have at least 1 target entry")
               ELSE IF ts.tag = "panic" THEN Panic("unwrap on None")
               ELSE [tag |-> "Ok", value |-> ts]

\* the columns get_finding_data reads with `?` before it asks for the targets
ColumnsBeforeTargets ==
    {"blob_id", "start_byte", "end_byte", "start_line", "start_column", "end_line",
     "end_column", "snippet_before", "snippet_matching", "snippet_after", "groups",
     "rule_structural_id", "structural_id", "num_bytes"}

\* one iteration of the loop of get_finding_data: the entry of a match, the
\* error it propagates, or the panic of expect("Invalid status")
Hydrate(doc, metadata, bts) ==
    IF \E f \in ColumnsBeforeTargets : ~HasField(doc, f) THEN Err("missing column")
    ELSE LET target == GetTargetSet(bts, doc.blob_id)
         IN IF target.tag # "Ok" THEN target
            ELSE IF ~HasField(doc, "match_id") THEN Err("match_id")
            ELSE IF HasField(doc, "status") /\ StatusFromStr(doc.status).tag # "Ok"
                 THEN Panic("Invalid status")
            ELSE [tag |-> "Ok",
                  value |->
                    [target |-> target.value,
                     blob_metadata |-> [id |-> doc.blob_id, num_bytes |-> doc.num_bytes],
                     match_id |-> doc.match_id,
                     match_val |->
                        [blob_id |-> doc.blob_id,
                         location |-> [offset_span |->
                                          [start |-> doc.start_byte, end |-> doc.end_byte]],
                         groups |-> doc.groups,
                         rule_structural_id |-> doc.rule_structural_id,
                         rule_name |-> metadata.rule_name,
                         rule_text_id |-> metadata.rule_text_id,
                         structural_id |-> doc.structural_id],
                     match_comment |-> GetStrOr(doc, "comment", None),
                     match_status |-> IF HasField(doc, "status")
                                      THEN StatusFromStr(doc.status).value ELSE None]]

RECURSIVE HydrateAll(_, _, _)
\* the loop of get_finding_data: it stops at the first match that fails
HydrateAll(docs, metadata, bts) ==
    IF docs = <<>> THEN [tag |-> "Ok", entries |-> <<>>]
    ELSE LET e == Hydrate(Head(docs), metadata, bts)
         IN IF e.tag # "Ok" THEN e
            ELSE LET rest == HydrateAll(Tail(docs), metadata, bts)
                 IN IF rest.tag # "Ok" THEN rest
                    ELSE [tag |-> "Ok", entries |-> <<e.value>> \o rest.entries]

\* What "$in" does on the array-valued column groups is decided by the
\* document store: either some element of the array is in the list, or the
\* column as a whole is (which an array never is in a list of strings).
InSemantics == {"element", "value"}

\* the "$in" condition of groups_query
GroupsIn(doc, list, semantics) ==
    /\ HasField(doc, "groups")
    /\ semantics = "element"
    /\ \E i \in 1..Len(doc.groups), j \in 1..Len(list) : doc.groups[i] = list[j]

\* groups_query
GroupsQuery(doc, metadata, semantics) ==
    /\ HasField(doc, "rule_structural_id")
    /\ doc.rule_structural_id = metadata.rule_structural_id
    /\ metadata.groups # <<>> => GroupsIn(doc, metadata.groups, semantics)

LimitNone == [tag |-> "None"]

LimitSome(n) == [tag |-> "Some", value |-> n]

\* a cursor that ignores the limit
TakeAll(cursor, limit) == cursor

\* cursor.take(limit.unwrap_or(usize::MAX))
Take(cursor, limit) ==
    IF limit.tag = "None" \/ limit.value >= Len(cursor) THEN cursor
    ELSE SubSeq(cursor, 1, limit.value)

\* the FindingMetadata and the limit a caller passes
MetadataArgs ==
    {[rule_structural_id |-> r, groups |-> g, rule_name |-> RuleNameOf(r),
      rule_text_id |-> "np." \o r] :
        r \in {"r1", "r2"}, g \in {<<>>, <<"secret123">>}}
    \ {[rule_structural_id |-> "r2", groups |-> <<"secret123">>,
         rule_name |-> RuleNameOf("r2"), rule_text_id |-> "np.r2"]}

Limits == {LimitNone} \cup {LimitSome(n) : n \in 0..MaxStored}

\* the matches groups_query selects, in cursor order
Selected(ms, metadata, semantics) ==
    SelectSeq(ms, LAMBDA d : GroupsQuery(d, metadata, semantics))

GetFindingData ==
    /\ \E metadata \in MetadataArgs, limit \in Limits, semantics \in InSemantics :
          /\ metadata.groups = <<>> => semantics = "element"
          /\ fd_args' = [metadata |-> metadata, limit |-> limit, semantics |-> semantics]
          /\ ret' = HydrateAll(Take(Selected(matches, metadata, semantics), limit),
                               metadata, blob_targets)
    /\ call' = "get_finding_data"
    /\ analyze_runs' = 0
    /\ UNCHANGED <<matches, findings, blob_targets>>
    /\ UNCHANGED <<annVars, tsVars, idVars, stepVars>>

\* The scanner stores one more match.
StoreMatchFrom(docs, n) ==
    /\ Len(matches) < n
    /\ \E doc \in docs : matches' = Append(matches, doc)
    /\ call' = "store_match"
    /\ ret' = Ok
    /\ analyze_runs' = 0
    /\ fd_args' = [tag |-> "none"]
    /\ UNCHANGED <<findings, blob_targets>>
    /\ UNCHANGED <<annVars, tsVars, idVars, stepVars>>

StoreMatch == StoreMatchFrom(ScannedMatchDocs, MaxStored)

\* the scanner records a match in a store that is later annotated
ScanMatch == StoreMatchFrom(ScannedMatchDocs, MaxScanned)

\* a match of a second rule that has the pattern, and so the structural id, of
\* the first: Match::convert copies name and structural id from the rule
ScanU ==
    [ScanB EXCEPT !.match = [rule_name |-> "Rule Uno", rule_text_id |-> "np.r1.es",
                             rule_structural_id |-> "r1"]]

\* the matches of a scan with three rules
ListedMatchDocs == {ScanA, ScanC, ScanD, ScanU}

\* the scanner records a match in a store whose findings are later listed
StoreListedMatch == StoreMatchFrom(ListedMatchDocs, MaxStored)

\* The scanner records where it saw a blob, once for each place.
StoreBlobTarget ==
    /\ \E doc \in BlobTargetDocs :
          /\ \A i \in 1..Len(blob_targets) : blob_targets[i] # doc
          /\ blob_targets' = Append(blob_targets, doc)
    /\ call' = "store_blob_target"
    /\ ret' = Ok
    /\ analyze_runs' = 0
    /\ fd_args' = [tag |-> "none"]
    /\ UNCHANGED <<matches, findings>>
    /\ UNCHANGED <<annVars, tsVars, idVars, stepVars>>

\* import_annotations as one call on a store that already holds annotations
ImportAnnotationsInto ==
    /\ phase = "idle"
    /\ annotations # <<>>
    /\ Len(annotations) < MaxBatch
    /\ \E anns \in SmallBatches :
          LET r == ImportAnnotations(annotations, anns)
          IN /\ annotations' = r.collection
             /\ finding_comment_stats' = r.finding_comment_stats
             /\ match_comment_stats' = r.match_comment_stats
             /\ batch' = anns
    /\ call' = "import_annotations"
    /\ ret' = Ok
    /\ analyze_runs' = 0
    /\ UNCHANGED <<matches, findings, phase>>
    /\ UNCHANGED <<tsVars, dataVars, idVars, stepVars>>

(***************************************************************************)
(* Datastore::get_annotations                                              *)
(***************************************************************************)
\* doc.get_str(field) succeeds: the field is there and holds a string
HasStr(doc, field) == HasField(doc, field) /\ doc[field] # BsonNull

\* the fields the two branches of get_annotations read with `?`
MatchAnnotationFields ==
    {"finding_id", "rule_name", "rule_text_id", "rule_structural_id", "structural_id",
     "blob_id", "start_byte", "end_byte", "groups"}

FindingAnnotationFields ==
    {"finding_id", "rule_name", "rule_text_id", "rule_structural_id", "groups"}

\* one iteration of the loop of get_annotations over the cursor
ExportAnnotation(doc) ==
    IF ~HasStr(doc, "comment") THEN [tag |-> "Ok", kind |-> "none"]
    ELSE IF HasField(doc, "structural_id")
    THEN IF \E f \in MatchAnnotationFields : ~HasField(doc, f) THEN Err("missing field")
         ELSE IF HasStr(doc, "status") /\ StatusFromStr(doc.status).tag # "Ok"
              THEN Panic("Invalid status")
         ELSE [tag |-> "Ok", kind |-> "match",
               value |->
                 [finding_id |-> doc.finding_id,
                  rule_name |-> doc.rule_name,
                  rule_text_id |-> doc.rule_text_id,
                  rule_structural_id |-> doc.rule_structural_id,
                  match_id |-> doc.structural_id,
                  blob_id |-> doc.blob_id,
                  start_byte |-> doc.start_byte,
                  end_byte |-> doc.end_byte,
                  groups |-> doc.groups,
                  status |-> IF HasStr(doc, "status") THEN doc.status ELSE None,
                  comment |-> doc.comment]]
    ELSE IF \E f \in FindingAnnotationFields : ~HasField(doc, f) THEN Err("missing field")
         ELSE [tag |-> "Ok", kind |-> "finding",
               value |->
                 [finding_id |-> doc.finding_id,
                  rule_name |-> doc.rule_name,
                  rule_text_id |-> doc.rule_text_id,
                  rule_structural_id |-> doc.rule_structural_id,
                  groups |-> doc.groups,
                  comment |-> doc.comment]]

RECURSIVE ExportAnnotations(_)
\* the loop of get_annotations: the two vectors, or the first failure
ExportAnnotations(docs) ==
    IF docs = <<>>
    THEN [tag |-> "Ok", match_annotations |-> <<>>, finding_annotations |-> <<>>]
    ELSE LET e == ExportAnnotation(Head(docs))
         IN IF e.tag # "Ok" THEN e
            ELSE LET rest == ExportAnnotations(Tail(docs))
                 IN IF rest.tag # "Ok" THEN rest
                    ELSE [tag |-> "Ok",
                          match_annotations |->
                              (IF e.kind = "match" THEN <<e.value>> ELSE <<>>)
                              \o rest.match_annotations,
                          finding_annotations |->
                              (IF e.kind = "finding" THEN <<e.value>> ELSE <<>>)
                              \o rest.finding_annotations]

GetAnnotations ==
    /\ phase = "idle"
    /\ call' = "get_annotations"
    /\ ret' = ExportAnnotations(annotations)
    /\ analyze_runs' = 0
    /\ UNCHANGED <<matches, findings, annVars, tsVars, dataVars, idVars, stepVars>>

(***************************************************************************)
(* The snippet windows of Match::convert.                                  *)
(***************************************************************************)
UsizeMax == 2^UsizeBits - 1

\* usize::saturating_sub
SaturatingSub(a, b) == IF a < b THEN 0 ELSE a - b

\* an addition that wraps around at the width of usize
WrappingAdd(a, b) == (a + b) % (UsizeMax + 1)

\* usize::saturating_add
SaturatingAdd(a, b) == IF a + b > UsizeMax THEN UsizeMax ELSE a + b

Min(a, b) == IF a < b THEN a ELSE b

\* &bytes[start..end]: panics when start > end or end > bytes.len()
Slice(bytes, start, end) ==
    IF start > end \/ end > Len(bytes) THEN Panic("slice index out of range")
    ELSE [tag |-> "Ok", start |-> start, end |-> end,
          bytes |-> SubSeq(bytes, start + 1, end)]

\* before_snippet of Match::convert
BeforeSnippet(bytes, offset_span, snippet_context_bytes) ==
    LET start == SaturatingSub(offset_span.start, snippet_context_bytes)
        end == offset_span.start
    IN Slice(bytes, start, end)

\* after_snippet of Match::convert
AfterSnippet(bytes, offset_span, snippet_context_bytes) ==
    LET start == offset_span.end
        end == Min(SaturatingAdd(offset_span.end, snippet_context_bytes), Len(bytes))
    IN Slice(bytes, start, end)

\* a blob of the given length: each byte holds its own offset
BlobBytes(len) == [i \in 1..len |-> i - 1]

\* the context budgets: small ones, and the ones next to usize::MAX
ContextBudgets == {0, 1, 2, 3, UsizeMax - 1, UsizeMax}

\* Match::convert cuts the windows around a match of a blob.
ClipSnippets ==
    /\ \E len \in 0..MaxBlobLen, snippet_context_bytes \in ContextBudgets :
       \E start \in 0..len :
       \E end \in start..len :
          LET bytes == BlobBytes(len)
              offset_span == [start |-> start, end |-> end]
          IN clipped' =
                [tag |-> "clipped",
                 bytes |-> bytes,
                 offset_span |-> offset_span,
                 snippet_context_bytes |-> snippet_context_bytes,
                 before |-> BeforeSnippet(bytes, offset_span, snippet_context_bytes),
                 after |-> AfterSnippet(bytes, offset_span, snippet_context_bytes)]
    /\ UNCHANGED pending
    /\ UNCHANGED <<aggVars, annVars, tsVars, dataVars, idVars>>

(***************************************************************************)
(* Datastore::analyze, one store operation at a time.  analyze takes &self *)
(* and opens no transaction: between two of its operations on the store    *)
(* another holder of the Datastore may run a query.                        *)
(***************************************************************************)
Running == [tag |-> "running"]

\* delete_many on findings, then the loop over the matches cursor that fills
\* findings_map
AnalyzeDelete ==
    /\ pending.tag = "idle"
    /\ findings' = DeleteMany(findings)
    /\ call' = "analyze"
    /\ analyze_runs' = 0
    /\ IF MatchFieldMissing(matches)
       THEN /\ pending' = [tag |-> "idle"]
            /\ ret' = Err("'match' field not present")
       ELSE \E order \in Orders(FindingsMapKeys(matches)) :
            LET docs == [i \in 1..Len(order) |->
                            FindingDoc(order[i], FindingsMapAt(matches, order[i]))]
            IN /\ pending' = [tag |-> "inserting", before |-> findings,
                              all |-> docs, docs |-> docs]
               /\ ret' = Running
    /\ UNCHANGED <<matches, clipped>>
    /\ UNCHANGED <<annVars, tsVars, dataVars, idVars>>

\* one insert_one of the loop over findings_map
AnalyzeInsert ==
    /\ pending.tag = "inserting"
    /\ pending.docs # <<>>
    /\ findings' = Append(findings, Head(pending.docs))
    /\ pending' = [pending EXCEPT !.docs = Tail(@)]
    /\ call' = "analyze"
    /\ ret' = Running
    /\ analyze_runs' = 0
    /\ UNCHANGED <<matches, clipped>>
    /\ UNCHANGED <<annVars, tsVars, dataVars, idVars>>

\* the loop over findings_map has ended: Ok(())
AnalyzeReturn ==
    /\ pending.tag = "inserting"
    /\ pending.docs = <<>>
    /\ pending' = [tag |-> "idle"]
    /\ call' = "analyze"
    /\ ret' = Ok
    /\ analyze_runs' = 0
    /\ UNCHANGED <<matches, findings, clipped>>
    /\ UNCHANGED <<annVars, tsVars, dataVars, idVars>>

(***************************************************************************)
(* get_finding_data on an entry of get_finding_metadata.                   *)
(***************************************************************************)
\* get_finding_data(&entries[i], None), entries being the listing that
\* get_finding_metadata has just returned
GetListedFindingData ==
    /\ call = "get_finding_metadata"
    /\ ret.tag = "Ok"
    /\ \E i \in 1..Len(ret.entries), semantics \in InSemantics :
          LET metadata == ret.entries[i]
          IN /\ metadata.groups = <<>> => semantics = "element"
             /\ fd_args' = [metadata |-> metadata, limit |-> LimitNone,
                            semantics |-> semantics, finding |-> findings[i]]
             /\ ret' = HydrateAll(Take(Selected(matches, metadata, semantics), LimitNone),
                                  metadata, blob_targets)
    /\ call' = "get_finding_data"
    /\ analyze_runs' = 0
    /\ UNCHANGED <<matches, findings, blob_targets>>
    /\ UNCHANGED <<annVars, tsVars, idVars, stepVars>>

(***************************************************************************)
(* Specifications.                                                         *)
(***************************************************************************)
Init ==
    /\ matches = <<>>
    /\ findings = <<>>
    /\ call = "new_in_memory"
    /\ ret = Ok
    /\ analyze_runs = 0
    /\ annotations = <<>>
    /\ phase = "idle"
    /\ batch = [finding_annotations |-> <<>>, match_annotations |-> <<>>]
    /\ finding_comment_stats = ZeroStats
    /\ match_comment_stats = ZeroStats
    /\ ts_input = <<>>
    /\ ts_result = [tag |-> "pending"]
    /\ blob_targets = <<>>
    /\ fd_args = [tag |-> "none"]
    /\ converted = <<>>
    /\ pending = [tag |-> "idle"]
    /\ clipped = [tag |-> "none"]

\* the aggregation engine
Next ==
    \/ InsertMatch
    \/ Analyze
    \/ GetNumMatches
    \/ GetNumFindings
    \/ GetSummary
    \/ GetFindingMetadata

Spec == Init /\ [][Next]_vars

\* the annotation merge engine
NextAnn ==
    \/ ImportBegin
    \/ ImportFindingStep
    \/ ImportMatchStep
    \/ ImportEnd

SpecAnn == Init /\ [][NextAnn]_vars

\* analyze and import_annotations on one store
NextStore ==
    \/ InsertMatch
    \/ Analyze
    \/ ImportAnnotationsCall

SpecStore == Init /\ [][NextStore]_vars

\* repeated imports into a store that holds matches and findings
NextAppend ==
    \/ ScanMatch
    \/ Analyze
    \/ ImportAnnotationsCall
    \/ ImportAnnotationsInto

SpecAppend == Init /\ [][NextAppend]_vars

\* import and export of annotations
NextExport ==
    \/ ImportAnnotationsCall
    \/ ImportAnnotationsInto
    \/ GetAnnotations

SpecExport == Init /\ [][NextExport]_vars

\* grouping, listing and hydration on one store
NextAgree ==
    \/ StoreListedMatch
    \/ StoreBlobTarget
    \/ Analyze
    \/ GetFindingMetadata
    \/ GetListedFindingData

SpecAgree == Init /\ [][NextAgree]_vars

\* analyze, operation by operation, next to readers of the findings
NextReaders ==
    \/ StoreMatch
    \/ AnalyzeDelete
    \/ AnalyzeInsert
    \/ AnalyzeReturn
    \/ GetNumFindings
    \/ GetFindingMetadata

SpecReaders == Init /\ [][NextReaders]_vars

\* the snippet windows
NextSnippet ==
    \/ ClipSnippets

SpecSnippet == Init /\ [][NextSnippet]_vars

\* the listing of a findings collection that other writers also fill
NextListing ==
    \/ StoreFinding
    \/ GetFindingMetadata

SpecListing == Init /\ [][NextListing]_vars

\* the hydration of findings
NextData ==
    \/ StoreMatch
    \/ StoreBlobTarget
    \/ GetFindingData

SpecData == Init /\ [][NextData]_vars

\* the identity scheme
NextIdentity ==
    \/ Convert
    \/ CallFindingId

SpecIdentity == Init /\ [][NextIdentity]_vars

\* the construction of a TargetSet
NextTargetSet ==
    \/ PushTarget
    \/ CallTryFromIter

SpecTargetSet == Init /\ [][NextTargetSet]_vars

(***************************************************************************)
(* Properties of the aggregation engine.                                   *)
(***************************************************************************)
Range(seq) == {seq[i] : i \in 1..Len(seq)}

\* Match::finding_id() of the match a document of the matches collection holds
MatchFindingId(doc) == FindingId(doc.match.rule_structural_id, doc.groups)

\* the matches of one (rule, capture groups) pair, in cursor order
MatchesOfFinding(ms, fid) == SelectSeq(ms, LAMBDA d : MatchFindingId(d) = fid)

\* the findings collection is the one analyze derives from the current matches
FindingsCurrent ==
    /\ ~MatchFieldMissing(matches)
    /\ Len(findings) = Cardinality(FindingsMapKeys(matches))
    /\ Range(findings) =
           {FindingDoc(k, FindingsMapAt(matches, k)) : k \in FindingsMapKeys(matches)}

RECURSIVE SumField(_, _, _, _)
\* the sum of a counter over the first n findings that carry rule_name
SumField(fs, rule_name, field, n) ==
    IF n = 0 THEN 0
    ELSE SumField(fs, rule_name, field, n - 1)
         + (IF fs[n].rule_name = rule_name THEN fs[n][field] ELSE 0)

\* C1: after a successful analyze there is exactly one finding per distinct
\* (rule, capture-group values) pair of the matches collection, and the match
\* lists of the findings are exactly the matches of each such pair.
C1_GroupingCorrectness ==
    (call = "analyze" /\ ret.tag = "Ok") =>
        LET fids == {MatchFindingId(matches[i]) : i \in 1..Len(matches)}
        IN /\ Len(findings) = Cardinality(fids)
           /\ {findings[i].matches : i \in 1..Len(findings)} =
                  {MatchesOfFinding(matches, fid) : fid \in fids}

\* C2: an analyze that directly follows an analyze leaves the same findings:
\* the same number of them, each with the same key, count and match list, and
\* returns the same outcome.
C2_IdempotentAnalyze ==
    [][analyze_runs' = 2 =>
          /\ Len(findings') = Len(findings)
          /\ Range(findings') = Range(findings)
          /\ ret'.tag = ret.tag]_vars

\* analyze has just run twice in a row over matches that form several findings
C2_Witness ==
    /\ analyze_runs = 2
    /\ ret.tag = "Ok"
    /\ Len(findings) >= 2
    /\ \E i \in 1..Len(findings) : findings[i].count >= 2

\* C7: get_summary returns one entry per rule_name that has a finding and no
\* other entry; the entry's distinct_count is the number of findings of the
\* rule, and total_count and the four status counters are the sums of the
\* findings' count and status counters.
C7_SummaryAdditivity ==
    call = "get_summary" =>
        LET names == {findings[i].rule_name : i \in 1..Len(findings)}
            n == Len(findings)
        IN /\ Len(ret) = Cardinality(names)
           /\ {ret[i].rule_name : i \in 1..Len(ret)} = names
           /\ \A i \in 1..Len(ret) :
                LET e == ret[i]
                IN /\ e.distinct_count =
                          Cardinality({j \in 1..n : findings[j].rule_name = e.rule_name})
                   /\ e.total_count = SumField(findings, e.rule_name, "count", n)
                   /\ e.accept_count = SumField(findings, e.rule_name, "accept_count", n)
                   /\ e.reject_count = SumField(findings, e.rule_name, "reject_count", n)
                   /\ e.mixed_count = SumField(findings, e.rule_name, "mixed_count", n)
                   /\ e.unlabeled_count = SumField(findings, e.rule_name, "unlabeled_count", n)

\* get_summary has returned a rule with two findings that hold three matches
\* between them
C7_Witness ==
    /\ call = "get_summary"
    /\ \E i \in 1..Len(ret) : ret[i].distinct_count = 2 /\ ret[i].total_count = 3

\* C8: get_finding_metadata reports for every finding a num_matches equal to
\* the finding's count.
C8_NumMatchesIsCount ==
    call = "get_finding_metadata" =>
        /\ ret.tag = "Ok"
        /\ Len(ret.entries) = Len(findings)
        /\ \A i \in 1..Len(ret.entries) : ret.entries[i].num_matches = findings[i].count

\* C9: when the matches are two matches of rule r1 with groups ["secret123"]
\* in different blobs, one accepted and one unlabeled, and the findings were
\* rebuilt from them, get_summary reports mixed_count = 1 for rule r1.
C9_MixedCountReported ==
    ( /\ call = "get_summary"
      /\ FindingsCurrent
      /\ Len(matches) = 2
      /\ Range(matches) = {DocA, WithStatus(DocB, "accept")} ) =>
        \E i \in 1..Len(ret) :
            ret[i].rule_name = RuleNameOf("r1") /\ ret[i].mixed_count = 1

(***************************************************************************)
(* Properties of the annotation merge engine.                              *)
(***************************************************************************)
\* a step is an iteration of the loop over the finding (match) annotations
FindingStepTaken ==
    /\ phase = "findings"
    /\ Len(batch'.finding_annotations) = Len(batch.finding_annotations) + 1

MatchStepTaken ==
    /\ phase \in {"findings", "matches"}
    /\ Len(batch'.match_annotations) = Len(batch.match_annotations) + 1

\* the entry that iteration processed
StepFA == batch'.finding_annotations[Len(batch'.finding_annotations)]

StepMA == batch'.match_annotations[Len(batch'.match_annotations)]

\* the stored finding annotations of a finding, the stored match annotations
\* of a match (positions in the collection)
StoredFindingAnnotations(finding_id) ==
    {i \in 1..Len(annotations) :
        ~HasField(annotations[i], "match_id") /\ annotations[i].finding_id = finding_id}

StoredMatchAnnotations(match_id) ==
    {i \in 1..Len(annotations) :
        HasField(annotations[i], "match_id") /\ annotations[i].match_id = match_id}

Inserted(doc_key, key, comment) ==
    /\ Len(annotations') = Len(annotations) + 1
    /\ SubSeq(annotations', 1, Len(annotations)) = annotations
    /\ LET d == annotations'[Len(annotations')]
       IN /\ HasField(d, doc_key)
          /\ d[doc_key] = key
          /\ d.comment = comment

\* C3: an entry whose key has a stored record of its kind with a different
\* comment leaves the collection as it is, adds one to the conflicting counter
\* of its kind and leaves the imported and existing counters alone.
C3_ConflictKeepsStored ==
    [][/\ ( /\ FindingStepTaken
            /\ \E i \in StoredFindingAnnotations(StepFA.finding_id) :
                   annotations[i].comment # StepFA.comment )
          => /\ annotations' = annotations
             /\ finding_comment_stats' =
                    [finding_comment_stats EXCEPT !.n_conflicting = @ + 1]
             /\ match_comment_stats' = match_comment_stats
       /\ ( /\ MatchStepTaken
            /\ \E i \in StoredMatchAnnotations(StepMA.match_id) :
                   annotations[i].comment # CommentOrEmpty(StepMA.comment) )
          => /\ annotations' = annotations
             /\ match_comment_stats' =
                    [match_comment_stats EXCEPT !.n_conflicting = @ + 1]
             /\ finding_comment_stats' = finding_comment_stats
      ]_vars

\* one import has met a conflicting finding annotation and a conflicting match
\* annotation
C3_Witness ==
    /\ finding_comment_stats.n_conflicting = 1
    /\ match_comment_stats.n_conflicting = 1

\* C4: an entry whose key has a stored record of its kind with the same
\* comment leaves the collection as it is and adds one to the existing counter
\* of its kind only; and once an import has returned, importing the same
\* Annotations again leaves the collection as it is.
C4_DuplicateIsNoOp ==
    /\ [][/\ ( /\ FindingStepTaken
               /\ \E i \in StoredFindingAnnotations(StepFA.finding_id) :
                      annotations[i].comment = StepFA.comment )
             => /\ annotations' = annotations
                /\ finding_comment_stats' =
                       [finding_comment_stats EXCEPT !.n_existing = @ + 1]
                /\ match_comment_stats' = match_comment_stats
          /\ ( /\ MatchStepTaken
               /\ \E i \in StoredMatchAnnotations(StepMA.match_id) :
                      annotations[i].comment = CommentOrEmpty(StepMA.comment) )
             => /\ annotations' = annotations
                /\ match_comment_stats' =
                       [match_comment_stats EXCEPT !.n_existing = @ + 1]
                /\ finding_comment_stats' = finding_comment_stats
         ]_vars
    /\ [](phase = "idle" => ImportAnnotations(annotations, batch).collection = annotations)

\* an import has returned that met a duplicate of each kind and inserted
\* an entry as well
C4_Witness ==
    /\ phase = "idle"
    /\ finding_comment_stats.n_existing = 1
    /\ match_comment_stats.n_existing = 1

\* C5: an entry for whose key the collection holds no document at all appends
\* exactly one document, which carries the key and the incoming comment, and
\* adds one to the imported counter of its kind only.
C5_NewIsInserted ==
    [][/\ ( /\ FindingStepTaken
            /\ \A i \in 1..Len(annotations) :
                   ~(HasField(annotations[i], "finding_id")
                     /\ annotations[i].finding_id = StepFA.finding_id) )
          => /\ Inserted("finding_id", StepFA.finding_id, StepFA.comment)
             /\ ~HasField(annotations'[Len(annotations')], "match_id")
             /\ finding_comment_stats' =
                    [finding_comment_stats EXCEPT !.n_imported = @ + 1]
             /\ match_comment_stats' = match_comment_stats
       /\ ( /\ MatchStepTaken
            /\ \A i \in 1..Len(annotations) :
                   ~(HasField(annotations[i], "match_id")
                     /\ annotations[i].match_id = StepMA.match_id) )
          => /\ Inserted("match_id", StepMA.match_id, CommentOrEmpty(StepMA.comment))
             /\ match_comment_stats' =
                    [match_comment_stats EXCEPT !.n_imported = @ + 1]
             /\ finding_comment_stats' = finding_comment_stats
      ]_vars

\* one import has inserted a finding annotation and a match annotation
C5_Witness ==
    /\ finding_comment_stats.n_imported = 1
    /\ match_comment_stats.n_imported = 1
    /\ Len(annotations) >= 2

\* C6: a finding annotation is classified against the stored finding
\* annotations of its finding only, and a match annotation against the stored
\* match annotations of its match only: with none stored the entry is inserted
\* and counted as imported, otherwise it is counted as existing or conflicting
\* by the comment of the stored one.
C6_KindsReconciledIndependently ==
    [][/\ FindingStepTaken =>
            LET stored == StoredFindingAnnotations(StepFA.finding_id)
            IN /\ stored = {} =>
                    /\ Inserted("finding_id", StepFA.finding_id, StepFA.comment)
                    /\ finding_comment_stats' =
                           [finding_comment_stats EXCEPT !.n_imported = @ + 1]
               /\ stored # {} =>
                    /\ annotations' = annotations
                    /\ finding_comment_stats' =
                         IF \E i \in stored : annotations[i].comment = StepFA.comment
                         THEN [finding_comment_stats EXCEPT !.n_existing = @ + 1]
                         ELSE [finding_comment_stats EXCEPT !.n_conflicting = @ + 1]
       /\ MatchStepTaken =>
            LET stored == StoredMatchAnnotations(StepMA.match_id)
            IN /\ stored = {} =>
                    /\ Inserted("match_id", StepMA.match_id, CommentOrEmpty(StepMA.comment))
                    /\ match_comment_stats' =
                           [match_comment_stats EXCEPT !.n_imported = @ + 1]
               /\ stored # {} =>
                    /\ annotations' = annotations
                    /\ match_comment_stats' =
                         IF \E i \in stored :
                                annotations[i].comment = CommentOrEmpty(StepMA.comment)
                         THEN [match_comment_stats EXCEPT !.n_existing = @ + 1]
                         ELSE [match_comment_stats EXCEPT !.n_conflicting = @ + 1]
      ]_vars

(***************************************************************************)
(* Properties of the provenance set.                                       *)
(***************************************************************************)
\* C10: try_from_iter returns None on the empty sequence, and on a sequence of
\* one target a set of length 1 whose first element is that target.
C10_TargetSetNonEmptiness ==
    ts_result.tag # "pending" =>
        /\ ts_input = <<>> => ts_result.tag = "None"
        /\ Len(ts_input) = 1 =>
              /\ ts_result.tag = "Some"
              /\ TargetSetLen(ts_result) = 1
              /\ TargetSetFirst(ts_result) = ts_input[1]
              /\ TargetSetIter(ts_result) = ts_input

\* try_from_iter has returned a set for a single GitRepo target without commit
C10_Witness ==
    /\ ts_result.tag = "Some"
    /\ Len(ts_input) = 1
    /\ ts_input[1].kind = "git_repo"
    /\ ts_input[1].first_commit = NoCommit

\* an entry of the input is redundant when it is a GitRepo without a commit
\* and some GitRepo entry of the input with the same path has one
Redundant(input, i) ==
    /\ input[i].kind = "git_repo"
    /\ input[i].first_commit = NoCommit
    /\ \E j \in 1..Len(input) :
          /\ input[j].kind = "git_repo"
          /\ input[j].repo_path = input[i].repo_path
          /\ input[j].first_commit # NoCommit

RECURSIVE WithoutRedundant(_, _)
\* the first n entries of the input, in input order, without the redundant ones
WithoutRedundant(input, n) ==
    IF n = 0 THEN <<>>
    ELSE WithoutRedundant(input, n - 1)
         \o (IF Redundant(input, n) THEN <<>> ELSE <<input[n]>>)

\* C11: on a non-empty input the constructed set, as yielded by iter, is the
\* input in input order without its redundant entries (GitRepo entries without
\* a commit whose path also occurs with a commit), and first() is its head.
C11_RedundancyCollapse ==
    (ts_result.tag # "pending" /\ ts_input # <<>>) =>
        /\ ts_result.tag = "Some"
        /\ TargetSetIter(ts_result) = WithoutRedundant(ts_input, Len(ts_input))
        /\ TargetSetFirst(ts_result) = Head(TargetSetIter(ts_result))
        /\ TargetSetLen(ts_result) = Len(TargetSetIter(ts_result))

\* [GitRepo{P, None}, GitRepo{P, Some(c)}] gave a set holding only the second
C11_Witness ==
    /\ ts_result.tag = "Some"
    /\ Len(ts_input) = 2
    /\ ts_input[1] = GitRepoTarget("/repo1", NoCommit)
    /\ ts_input[2] = GitRepoTarget("/repo1", "c1")
    /\ TargetSetIter(ts_result) = <<ts_input[2]>>

\* C12: a constructed set holds no two equal Target entries.
C12_Deduplicated ==
    ts_result.tag = "Some" =>
        \A i, j \in 1..TargetSetLen(ts_result) :
            TargetSetIter(ts_result)[i] = TargetSetIter(ts_result)[j] => i = j

(***************************************************************************)
(* Properties of the listing.                                              *)
(***************************************************************************)
\* the empty value of every field of a FindingMetadata
DefaultedMetadata(doc) ==
    [finding_id |-> IF HasField(doc, "finding_id") THEN doc.finding_id ELSE "",
     groups |-> IF HasField(doc, "groups") THEN doc.groups ELSE <<>>,
     rule_structural_id |->
         IF HasField(doc, "rule_structural_id") THEN doc.rule_structural_id ELSE "",
     rule_text_id |-> IF HasField(doc, "rule_text_id") THEN doc.rule_text_id ELSE "",
     rule_name |-> IF HasField(doc, "rule_name") THEN doc.rule_name ELSE "",
     num_matches |-> IF HasField(doc, "num_matches") THEN doc.num_matches ELSE 0,
     comment |-> IF HasField(doc, "comment") THEN doc.comment ELSE None,
     statuses |-> IF HasField(doc, "statuses") THEN doc.statuses ELSE <<>>,
     mean_score |-> None]

C17_CountConsistency ==
    \A i \in 1..Len(findings) :
        /\ findings[i].count = Len(findings[i].matches)
        /\ findings[i].accept_count = 0
        /\ findings[i].reject_count = 0
        /\ findings[i].mixed_count = 0
        /\ findings[i].unlabeled_count = findings[i].count
        /\ findings[i].count = findings[i].accept_count + findings[i].reject_count
                                + findings[i].mixed_count + findings[i].unlabeled_count

\* an import ran after analyze built a finding of two matches
C17_Witness ==
    /\ call = "import_annotations"
    /\ annotations # <<>>
    /\ \E i \in 1..Len(findings) : findings[i].count = 2

\* C18: a successful analyze leaves in the findings collection exactly the
\* findings derived from the matches present at that call, whatever the
\* collection held before; with no matches the collection is empty.
C18_FullRebuild ==
    [][(call' = "analyze" /\ ret'.tag = "Ok") =>
          /\ Len(findings') = Cardinality(FindingsMapKeys(matches'))
          /\ Range(findings') =
                 {FindingDoc(k, FindingsMapAt(matches', k)) : k \in FindingsMapKeys(matches')}
          /\ \A f \in Range(findings) :
                 f \in Range(findings') => \A m \in Range(f.matches) : m \in Range(matches')
          /\ (matches' = <<>> => findings' = <<>>)
      ]_vars

\* analyze has replaced a finding of one match by the finding of two matches
\* that the grown matches collection gives
C18_Witness ==
    /\ call = "analyze"
    /\ ret.tag = "Ok"
    /\ analyze_runs = 1
    /\ Len(matches) = 2
    /\ Len(findings) = 1
    /\ findings[1].count = 2

(***************************************************************************)
(* Properties of the identity scheme.                                      *)
(***************************************************************************)
\* two sequences hold the same values, each as often, in a different order
Permuted(g, h) ==
    /\ g # h
    /\ Len(g) = Len(h)
    /\ \A x \in Range(g) \cup Range(h) :
          Cardinality({i \in 1..Len(g) : g[i] = x}) = Cardinality({i \in 1..Len(h) : h[i] = x})

\* C16: two matches equal in (rule_structural_id, blob_id, span start, span
\* end) have the same structural_id whatever else differs; two matches equal in
\* (rule_structural_id, groups) have the same finding_id whatever their blob and
\* location; two matches whose groups are the same values in a different order
\* have different finding_ids.
C16_IdentityDeterminism ==
    \A i, j \in 1..Len(converted) :
        LET a == converted[i]
            b == converted[j]
        IN /\ ( /\ a.m.rule_structural_id = b.m.rule_structural_id
                /\ a.m.blob_id = b.m.blob_id
                /\ a.m.location.offset_span = b.m.location.offset_span )
              => a.m.structural_id = b.m.structural_id
           /\ (a.finding_id # NoField /\ b.finding_id # NoField) =>
                 /\ (a.m.rule_structural_id = b.m.rule_structural_id /\ a.m.groups = b.m.groups)
                       => a.finding_id = b.finding_id
                 /\ Permuted(a.m.groups, b.m.groups) => a.finding_id # b.finding_id

\* two matches of one rule structure with the groups in the two orders, in
\* different blobs and under different rule names, both with their finding id
C16_Witness ==
    /\ Len(converted) = 2
    /\ converted[1].finding_id # NoField
    /\ converted[2].finding_id # NoField
    /\ converted[1].m.rule_structural_id = converted[2].m.rule_structural_id
    /\ converted[1].m.rule_name # converted[2].m.rule_name
    /\ converted[1].m.blob_id # converted[2].m.blob_id
    /\ Permuted(converted[1].m.groups, converted[2].m.groups)

(***************************************************************************)
(* Properties of the hydration.                                            *)
(***************************************************************************)
\* the matches the last get_finding_data call selected, in cursor order
LastSelected == Selected(matches, fd_args.metadata, fd_args.semantics)

\* how many of them the limit lets the loop take
Cap ==
    IF fd_args.limit.tag = "None" THEN Len(LastSelected)
    ELSE IF fd_args.limit.value < Len(LastSelected) THEN fd_args.limit.value
    ELSE Len(LastSelected)

\* the loop reaches the k-th selected match: every earlier one was hydrated
Reaches(k) ==
    /\ k \in 1..Cap
    /\ \A j \in 1..(k - 1) :
          Hydrate(LastSelected[j], fd_args.metadata, blob_targets).tag = "Ok"

\* the blob_targets entries of a blob
Provenance(blob_id) == {i \in 1..Len(blob_targets) : blob_targets[i].blob_id = blob_id}

C14_ResultLimiting ==
    call = "get_finding_data" =>
        /\ ret.tag = "Ok" =>
              /\ Len(ret.entries) = Cap
              /\ fd_args.limit.tag = "Some" => Len(ret.entries) <= fd_args.limit.value
              /\ fd_args.limit = LimitSome(0) => ret.entries = <<>>
              /\ fd_args.limit.tag = "None" => Len(ret.entries) = Len(LastSelected)
              /\ \A i \in 1..Len(ret.entries) :
                    /\ ret.entries[i].match_id = LastSelected[i].match_id
                    /\ ret.entries[i].match_val.groups = LastSelected[i].groups
        /\ (\A k \in 1..Cap :
               Hydrate(LastSelected[k], fd_args.metadata, blob_targets).tag = "Ok")
              => ret.tag = "Ok"

\* limit Some(1), two selected matches, the second one defective: one entry
C14_Witness ==
    /\ call = "get_finding_data"
    /\ fd_args.limit = LimitSome(1)
    /\ Len(LastSelected) = 2
    /\ Hydrate(LastSelected[2], fd_args.metadata, blob_targets).tag # "Ok"
    /\ ret.tag = "Ok"
    /\ Len(ret.entries) = 1

\* C20: when get_finding_data reads a match whose status string is neither
\* "accept" nor "reject", it returns an error to its caller.
C20_MalformedStatusIsAnError ==
    call = "get_finding_data" =>
        ((\E k \in 1..Cap :
             /\ Reaches(k)
             /\ HasField(LastSelected[k], "status")
             /\ LastSelected[k].status \notin {"accept", "reject"}) => ret.tag = "Err")

\* C26: on every non-empty input the redundancy filter keeps at least one
\* entry: the construction does not panic and the set has len() >= 1.
C26_NeverEmptyNeverPanics ==
    (ts_result.tag # "pending" /\ ts_input # <<>>) =>
        /\ ts_result.tag # "panic"
        /\ ts_result.tag = "Some"
        /\ TargetSetLen(ts_result) >= 1
        /\ Len(TargetSetIter(ts_result)) >= 1

\* a set was built from an input whose first element is a redundant GitRepo
\* entry without commit
C26_Witness ==
    /\ ts_result.tag = "Some"
    /\ Len(ts_input) >= 2
    /\ Redundant(ts_input, 1)
    /\ TargetSetFirst(ts_result) # ts_input[1]

(***************************************************************************)
(* Properties of a failing analyze.                                        *)
(***************************************************************************)
\* C30: when a record of the matches collection has no "match" sub-document,
\* analyze returns an error, inserts no finding and leaves the findings
\* collection empty, whatever the collection held before the call.
C30_FailedAnalyzeLeavesNoFindings ==
    [][(call' = "analyze" /\ \E i \in 1..Len(matches) : ~HasField(matches[i], "match")) =>
          /\ ret'.tag = "Err"
          /\ findings' = <<>>
          /\ matches' = matches
      ]_vars

\* analyze failed on a matches collection whose first record is well-formed
\* and whose last one has no "match" sub-document
C30_Witness ==
    /\ call = "analyze"
    /\ ret.tag = "Err"
    /\ findings = <<>>
    /\ Len(matches) >= 2
    /\ HasField(matches[1], "match")
    /\ ~HasField(matches[Len(matches)], "match")

(***************************************************************************)
(* Properties of the grouping as a partition.                              *)
(***************************************************************************)
\* how often a document occurs in a sequence
Occurrences(seq, d) == Cardinality({i \in 1..Len(seq) : seq[i] = d})

RECURSIVE SumOver(_, _, _)
\* the sum of f[i] over a finite set of indices
SumOver(f, S, n) ==
    IF n = 0 THEN 0
    ELSE SumOver(f, S, n - 1) + (IF n \in S THEN f[n] ELSE 0)

\* the sum of count over all findings
TotalCount == SumOver([i \in 1..Len(findings) |-> findings[i].count],
                      1..Len(findings), Len(findings))

\* C28: after a successful analyze every record of the matches collection is
\* embedded in exactly one finding, as often as it is stored; no finding embeds
\* a record that is not in matches; and the counts of the findings add up to
\* the number get_num_matches returns.
C28_AnalyzePartitionsMatches ==
    /\ (call = "analyze" /\ ret.tag = "Ok") =>
          /\ \A d \in Range(matches) :
                /\ Cardinality({i \in 1..Len(findings) :
                                    d \in Range(findings[i].matches)}) = 1
                /\ Occurrences(matches, d) =
                      SumOver([i \in 1..Len(findings) |->
                                   Occurrences(findings[i].matches, d)],
                              1..Len(findings), Len(findings))
          /\ \A i \in 1..Len(findings) : Range(findings[i].matches) \subseteq Range(matches)
          /\ TotalCount = Len(matches)
    /\ (call = "get_num_matches" /\ FindingsCurrent) => TotalCount = ret

\* get_num_matches returned 3 on findings that analyze built from three
\* matches, two of them in one finding
C28_Witness ==
    /\ call = "get_num_matches"
    /\ FindingsCurrent
    /\ ret = 3
    /\ Len(findings) = 2

(***************************************************************************)
(* Properties of the order of the summary.                                 *)
(***************************************************************************)
\* the position in the findings collection where a rule name first occurs
FirstOccurrence(rule_name) ==
    CHOOSE i \in 1..Len(findings) :
        /\ findings[i].rule_name = rule_name
        /\ \A j \in 1..(i - 1) : findings[j].rule_name # rule_name

\* C22: get_summary returns its entries in the order in which each rule_name
\* first occurs in the findings collection.
C22_SummaryInFirstOccurrenceOrder ==
    call = "get_summary" =>
        \A i, j \in 1..Len(ret) :
            i < j => FirstOccurrence(ret[i].rule_name) < FirstOccurrence(ret[j].rule_name)

(***************************************************************************)
(* Properties of an import that met a conflict.                            *)
(***************************************************************************)
\* what a counter record gained in a step
StatsGain(before, after) ==
    [n_imported |-> after.n_imported - before.n_imported,
     n_conflicting |-> after.n_conflicting - before.n_conflicting,
     n_existing |-> after.n_existing - before.n_existing,
     n_missing |-> after.n_missing - before.n_missing]

\* the call has counted a conflict
ConflictSeen ==
    finding_comment_stats.n_conflicting + match_comment_stats.n_conflicting > 0

\* C21: once a call has counted a conflict it goes on: every later entry of the
\* batch is processed as it would have been by a call without the conflict
\* (same change of the collection, same counter raised by one), a new entry
\* after a conflict is still inserted, and the call can still return.
C21_ConflictDoesNotAbort ==
    [][(ConflictSeen /\ phase # "idle") =>
          /\ FindingStepTaken =>
                LET r == ImportFindingAnnotation(annotations, ZeroStats, StepFA)
                IN /\ annotations' = r.collection
                   /\ StatsGain(finding_comment_stats, finding_comment_stats') = r.stats
                   /\ FindOne(annotations, "finding_id", StepFA.finding_id) = 0 =>
                         /\ Len(annotations') = Len(annotations) + 1
                         /\ finding_comment_stats'.n_imported =
                               finding_comment_stats.n_imported + 1
          /\ MatchStepTaken =>
                LET r == ImportMatchAnnotation(annotations, ZeroStats, StepMA)
                IN /\ annotations' = r.collection
                   /\ StatsGain(match_comment_stats, match_comment_stats') = r.stats
                   /\ FindOne(annotations, "match_id", StepMA.match_id) = 0 =>
                         /\ Len(annotations') = Len(annotations) + 1
                         /\ match_comment_stats'.n_imported =
                               match_comment_stats.n_imported + 1
          /\ ENABLED ImportEnd
      ]_vars

\* a call counted a conflict on its first finding annotation and then inserted
\* its second one
C21_Witness ==
    /\ Len(batch.finding_annotations) = 2
    /\ finding_comment_stats.n_conflicting = 1
    /\ finding_comment_stats.n_imported = 1
    /\ annotations[Len(annotations)].finding_id = batch.finding_annotations[2].finding_id
    /\ annotations[Len(annotations)].comment = batch.finding_annotations[2].comment
    /\ \E i \in 1..(Len(annotations) - 1) :
          /\ annotations[i].finding_id = batch.finding_annotations[1].finding_id
          /\ annotations[i].comment # batch.finding_annotations[1].comment

(***************************************************************************)
(* Properties of the stored annotations under import.                      *)
(***************************************************************************)
\* s is an initial part of t
IsPrefix(s, t) == Len(s) <= Len(t) /\ \A i \in 1..Len(s) : t[i] = s[i]

\* C25: import_annotations only appends: every annotation stored before the call
\* is stored after it at the same place with the same fields, so none is
\* deleted or rewritten, and the call leaves the matches and the findings as
\* they were.
C25_ImportOnlyAppends ==
    [][call' = "import_annotations" =>
          /\ IsPrefix(annotations, annotations')
          /\ matches' = matches
          /\ findings' = findings]_vars

\* an import met a stored annotation with another comment, in a store that
\* holds matches and findings, and kept the stored comment
C25_Witness ==
    /\ call = "import_annotations"
    /\ matches # <<>>
    /\ findings # <<>>
    /\ finding_comment_stats.n_conflicting = 1
    /\ \E i \in 1..Len(annotations) :
          /\ annotations[i].finding_id = batch.finding_annotations[1].finding_id
          /\ annotations[i].comment # batch.finding_annotations[1].comment

(***************************************************************************)
(* Properties of the export of annotations.                                *)
(***************************************************************************)
\* no two entries of a batch share their key
NoDuplicateKeys(anns) ==
    /\ \A i, j \in 1..Len(anns.finding_annotations) :
          anns.finding_annotations[i].finding_id = anns.finding_annotations[j].finding_id
              => i = j
    /\ \A i, j \in 1..Len(anns.match_annotations) :
          anns.match_annotations[i].match_id = anns.match_annotations[j].match_id
              => i = j

\* the collection is the one an import of the batch into an empty collection leaves
ImportedIntoEmpty ==
    /\ NoDuplicateKeys(batch)
    /\ annotations = ImportAnnotations(<<>>, batch).collection

\* C27: get_annotations after an import into an empty collection returns the
\* batch: every finding annotation among finding_annotations, every match
\* annotation among match_annotations with its match_id, status and comment,
\* and no match annotation among finding_annotations.
C27_ImportExportRoundTrip ==
    (call = "get_annotations" /\ ImportedIntoEmpty) =>
        /\ ret.tag = "Ok"
        /\ \A i \in 1..Len(batch.finding_annotations) :
              batch.finding_annotations[i] \in Range(ret.finding_annotations)
        /\ \A i \in 1..Len(batch.match_annotations) :
              \E j \in 1..Len(ret.match_annotations) :
                 /\ ret.match_annotations[j].match_id = batch.match_annotations[i].match_id
                 /\ ret.match_annotations[j].status = batch.match_annotations[i].status
                 /\ ret.match_annotations[j].comment = batch.match_annotations[i].comment
        /\ \A i \in 1..Len(batch.match_annotations) :
              \A j \in 1..Len(ret.finding_annotations) :
                 ret.finding_annotations[j].finding_id # batch.match_annotations[i].finding_id

(***************************************************************************)
(* Properties of the snippet windows.                                      *)
(***************************************************************************)
\* C24: for every blob length, span inside the blob and context budget, up to
\* the largest usize, cutting the windows does not panic; the window before
\* the match is bytes[max(0, start - c) .. start], the one after it is
\* bytes[end .. min(L, end + c)], both inside [0, L], holding min(c, start) and
\* min(c, L - end) bytes, never more than c.
C24_SnippetClipping ==
    clipped.tag = "clipped" =>
        LET L == Len(clipped.bytes)
            c == clipped.snippet_context_bytes
            start == clipped.offset_span.start
            end == clipped.offset_span.end
        IN /\ clipped.before.tag = "Ok"
           /\ clipped.after.tag = "Ok"
           /\ clipped.before.start = (IF start - c < 0 THEN 0 ELSE start - c)
           /\ clipped.before.end = start
           /\ clipped.after.start = end
           /\ clipped.after.end = Min(L, end + c)
           /\ clipped.before.bytes =
                 [i \in 1..Min(c, start) |-> clipped.bytes[start - Min(c, start) + i]]
           /\ clipped.after.bytes =
                 [i \in 1..Min(c, L - end) |-> clipped.bytes[end + i]]
           /\ 0 <= clipped.before.start /\ clipped.before.end <= L
           /\ 0 <= clipped.after.start /\ clipped.after.end <= L
           /\ Len(clipped.before.bytes) = Min(c, start)
           /\ Len(clipped.after.bytes) = Min(c, L - end)
           /\ Len(clipped.before.bytes) <= c
           /\ Len(clipped.after.bytes) <= c

\* a budget next to the largest usize on a match strictly inside its blob: both
\* windows are cut at the ends of the blob
C24_Witness ==
    /\ clipped.tag = "clipped"
    /\ clipped.snippet_context_bytes = UsizeMax
    /\ clipped.offset_span.start > 0
    /\ clipped.offset_span.end < Len(clipped.bytes)
    /\ clipped.before.tag = "Ok"
    /\ clipped.after.tag = "Ok"
    /\ Len(clipped.before.bytes) = clipped.offset_span.start
    /\ Len(clipped.after.bytes) = Len(clipped.bytes) - clipped.offset_span.end

(***************************************************************************)
(* Properties of analyze next to readers.                                  *)
(***************************************************************************)
\* how many findings a running analyze has inserted
InsertedSoFar == Len(pending.all) - Len(pending.docs)

\* C23: analyze is not atomic for readers: from its delete step to its last
\* insert the findings collection holds only the findings inserted so far,
\* none of them or strictly fewer than all, and a reader that queries the
\* findings in between (get_num_findings, get_finding_metadata) is answered
\* from that empty or partial collection.
C23_ReadersSeeUnfinishedAnalyze ==
    pending.tag = "inserting" =>
        /\ findings = SubSeq(pending.all, 1, InsertedSoFar)
        /\ pending.docs # <<>> =>
              /\ Len(findings) < Len(pending.all)
              /\ call = "get_num_findings" => ret = Len(findings)
              /\ call = "get_finding_metadata" =>
                    (ret.tag = "Ok" /\ Len(ret.entries) = Len(findings))

\* the findings were complete before analyze started and will be the same set
\* when it returns, and a reader in between counted some of them but not all
C23_Witness ==
    /\ pending.tag = "inserting"
    /\ pending.docs # <<>>
    /\ pending.before # <<>>
    /\ Range(pending.before) = Range(pending.all)
    /\ call = "get_num_findings"
    /\ 0 < ret
    /\ ret < Len(pending.before)

(***************************************************************************)
(* Properties of listing and hydration against grouping.                   *)
(***************************************************************************)
\* C29: for a finding that analyze produced from the stored matches,
\* get_finding_data on the finding's entry of get_finding_metadata, without a
\* limit, returns exactly the matches that analyze embedded in the finding:
\* the same matches, and as many entries as the finding's count.
C29_HydrationAgreesWithGrouping ==
    (call = "get_finding_data" /\ HasField(fd_args, "finding")
        /\ FindingsCurrent /\ ret.tag = "Ok") =>
        /\ Len(ret.entries) = fd_args.finding.count
        /\ {ret.entries[j].match_id : j \in 1..Len(ret.entries)} =
              {fd_args.finding.matches[k].match_id :
                  k \in 1..Len(fd_args.finding.matches)}

====
